---------------------------- MODULE Spec2Model ----------------------------
(***************************************************************************)
(* A model of the EvoHome backend (src/app/main.py): the content table,    *)
(* the three collection tables (services, blogs, gallery), the leads       *)
(* table, the in-memory rate limiter and the JWT administrator guard.      *)
(* Each HTTP handler is one action; the last response is kept in `resp`.   *)
(* Time is the wall clock in whole seconds.                                *)
(***************************************************************************)
EXTENDS Integers, Sequences, FiniteSets, TLC

VARIABLES
    now,         \* wall clock, seconds (time.time() / datetime.utcnow())
    issued,      \* the tokens admin_login handed out, each with its time of issue
    content,     \* rows of table "content"
    services,    \* rows of table "services"
    blogs,       \* rows of table "blogs"
    gallery,     \* rows of table "gallery"
    leads,       \* rows of table "leads"
    RATE_STORE,  \* client address -> list of request times (no entry reads as [])
    uploads,     \* file names written under uploads/
    outbox,      \* ids of the leads whose notification mail was handed to the relay
    accepted,    \* history: per client, the (route, time) of each request rate_limit let through
    resp,        \* the last request and its response
    inflight     \* thread-pool worker -> the request it is in the middle of

vars == <<now, issued, content, services, blogs, gallery, leads,
          RATE_STORE, uploads, outbox, accepted, resp, inflight>>

(***************************************************************************)
(* Bounds of the model.                                                    *)
(***************************************************************************)
MaxTime == 90       \* the clock stops advancing here
Step == 30          \* seconds added by one Tick
MaxId == 3          \* largest primary key a table hands out
MaxLeads == 3       \* largest primary key of the leads table
MaxAccepted == 4    \* most requests of one client the limiter's history follows

(***************************************************************************)
(* Configuration (environment variables read at import time).              *)
(***************************************************************************)
JWT_EXPIRE_MINUTES == 1
RATE_LIMIT_PER_MIN == 2
window == 60

ADMIN_EMAIL == <<"a","d","m","i","n","@","e","x",".","c","o","m">>
ADMIN_PASSWORD == "changeme"
JWT_SECRET == "replace-me-with-a-strong-secret"

(***************************************************************************)
(* Strings whose letters matter are sequences of one-character strings.    *)
(* str.lower() maps each upper-case letter to its lower-case letter.       *)
(***************************************************************************)
UpperLetters == <<"A","B","C","D","E","F","G","H","I","J","K","L","M",
                  "N","O","P","Q","R","S","T","U","V","W","X","Y","Z">>
LowerLetters == <<"a","b","c","d","e","f","g","h","i","j","k","l","m",
                  "n","o","p","q","r","s","t","u","v","w","x","y","z">>

LowerChar(c) ==
    IF \E i \in 1..Len(UpperLetters) : UpperLetters[i] = c
    THEN LowerLetters[CHOOSE i \in 1..Len(UpperLetters) : UpperLetters[i] = c]
    ELSE c

Lower(s) == [i \in 1..Len(s) |-> LowerChar(s[i])]

\* pydantic EmailStr: one "@" with something before and after it
IsEmail(s) ==
    /\ Cardinality({i \in 1..Len(s) : s[i] = "@"}) = 1
    /\ s[1] # "@"
    /\ s[Len(s)] # "@"

(***************************************************************************)
(* Documents: JSON objects, modelled by the set of their fields.  {} is    *)
(* the empty object, which Python treats as false.                         *)
(***************************************************************************)
Fields == {"title", "body"}
Docs == SUBSET Fields
EmptyDoc == {}
Truthy(d) == d # EmptyDoc

Max(S) == CHOOSE x \in S : \A y \in S : y <= x
Min(S) == CHOOSE x \in S : \A y \in S : x <= y

\* the primary key an INSERT gets (SQLite rowid: largest id + 1)
NextId(rows) == IF rows = {} THEN 1 ELSE Max({r.id : r \in rows}) + 1

\* Query.first(): the matching row with the smallest rowid, or none
NoRow == [id |-> 0]
First(rows) ==
    IF rows = {} THEN NoRow
    ELSE CHOOSE r \in rows : r.id = Min({x.id : x \in rows})
Found(r) == r.id # 0

(***************************************************************************)
(* Tokens and the administrator guard.                                     *)
(***************************************************************************)
Garbage == [kind |-> "garbage", sub |-> "", exp |-> 0, sig |-> ""]

\* jwt.encode of {"sub": .., "email": .., "exp": ..} under a secret
Encode(sub, exp, secret) == [kind |-> "jwt", sub |-> sub, exp |-> exp, sig |-> secret]

create_access_token(sub, t) == Encode(sub, t + JWT_EXPIRE_MINUTES * 60, JWT_SECRET)

None == [kind |-> "none", sub |-> "", exp |-> 0]

\* a decode that does not look at exp
verify_token_no_exp(token, t) ==
    IF token.kind # "jwt" THEN None
    ELSE IF token.sig # JWT_SECRET THEN None
    ELSE [kind |-> "claims", sub |-> token.sub, exp |-> token.exp]

\* jwt.decode: JWTError on a malformed token, a wrong signature, or exp < now
verify_token(token, t) ==
    IF token.kind # "jwt" THEN None
    ELSE IF token.sig # JWT_SECRET THEN None
    ELSE IF token.exp < t THEN None
    ELSE [kind |-> "claims", sub |-> token.sub, exp |-> token.exp]

\* a guard that checks the signature and the expiry but not the subject
require_admin_any_subject(hdr, t) ==
    IF hdr.scheme # "Bearer" THEN 401
    ELSE IF verify_token(hdr.token, t).kind = "none" THEN 401 ELSE 200

\* the status require_admin ends with: 200 when it returns True
require_admin(hdr, t) ==
    IF hdr.scheme # "Bearer" THEN 401
    ELSE LET payload == verify_token(hdr.token, t)
         IN IF payload.kind = "none" \/ payload.sub # "admin" THEN 401 ELSE 200

NoAuth == [scheme |-> "", token |-> Garbage]
Bearer(tok) == [scheme |-> "Bearer", token |-> tok]

\* the authorization headers a request may carry at time t: none, another
\* scheme, a string that is no JWT, a JWT signed with another secret, a signed
\* JWT of another subject, a signed admin JWT whose exp has passed, and the
\* tokens admin_login handed out
Headers(t, toks) ==
    {NoAuth,
     [scheme |-> "Basic", token |-> Garbage],
     Bearer(Garbage),
     Bearer(Encode("admin", t + 60, "guessed-secret")),
     Bearer(Encode("editor", t + 60, JWT_SECRET)),
     Bearer(Encode("admin", t - 1, JWT_SECRET))}
    \cup {Bearer(tok) : tok \in toks}

Tokens == {i.token : i \in issued}

Clients == {"10.0.0.1", "10.0.0.2"}

\* the threads that run the handlers (FastAPI runs a def handler in a thread
\* pool); a worker that is not in the middle of a request is idle
Workers == {1, 2}
Idle == [pc |-> "idle"]

Response(op, ip, status, req, body) ==
    [op |-> op, client |-> ip, status |-> status, req |-> req, body |-> body, at |-> now]

Init ==
    /\ now = 0
    /\ issued = {}
    /\ content = {}
    /\ services = {}
    /\ blogs = {}
    /\ gallery = {}
    /\ leads = {}
    /\ RATE_STORE = [c \in Clients |-> <<>>]
    /\ uploads = {}
    /\ outbox = {}
    /\ accepted = [c \in Clients |-> <<>>]
    /\ resp = Response("start", "", 0, <<>>, <<>>)
    /\ inflight = [w \in Workers |-> Idle]

\* a request that ends without touching anything but the response
Reply(op, ip, status, req, body) ==
    /\ resp' = Response(op, ip, status, req, body)
    /\ UNCHANGED <<now, issued, content, services, blogs, gallery, leads,
                   RATE_STORE, uploads, outbox, accepted, inflight>>

Tick ==
    /\ now + Step <= MaxTime
    /\ now' = now + Step
    /\ UNCHANGED <<issued, content, services, blogs, gallery, leads,
                   RATE_STORE, uploads, outbox, accepted, resp, inflight>>

(***************************************************************************)
(* POST /admin/login                                                       *)
(***************************************************************************)
\* a login that compares the e-mail address as typed
admin_login_exact(email, password) ==
    IF ~IsEmail(email)
    THEN [status |-> 422, detail |-> "value is not a valid email address", token |-> Garbage]
    ELSE IF email # ADMIN_EMAIL \/ password # ADMIN_PASSWORD
    THEN [status |-> 401, detail |-> "Invalid credentials", token |-> Garbage]
    ELSE [status |-> 200, detail |-> "bearer", token |-> create_access_token("admin", now)]

admin_login(email, password) ==
    IF ~IsEmail(email)
    THEN [status |-> 422, detail |-> "value is not a valid email address", token |-> Garbage]
    ELSE IF Lower(email) # Lower(ADMIN_EMAIL) \/ password # ADMIN_PASSWORD
    THEN [status |-> 401, detail |-> "Invalid credentials", token |-> Garbage]
    ELSE [status |-> 200, detail |-> "bearer", token |-> create_access_token("admin", now)]

AdminLogin(ip, email, password) ==
    LET r == admin_login(email, password)
    IN /\ resp' = Response("admin_login", ip, r.status,
                           [email |-> email, password |-> password],
                           [detail |-> r.detail, token |-> r.token])
       /\ issued' = IF r.status = 200
                    THEN issued \cup {[token |-> r.token, at |-> now]}
                    ELSE issued
       /\ UNCHANGED <<now, content, services, blogs, gallery, leads,
                      RATE_STORE, uploads, outbox, accepted, inflight>>

(***************************************************************************)
(* Generic content: GET / POST / DELETE /content/{key}                     *)
(***************************************************************************)
Keys == {"homepage", "seo"}

ContentRow(rows, key) == First({r \in rows : r.key = key})

get_content(rows, key) ==
    LET item == ContentRow(rows, key)
    IN IF ~Found(item) THEN [status |-> 404, body |-> "Not found"]
       ELSE [status |-> 200, body |-> item.data]

GetContent(ip, key) ==
    LET r == get_content(content, key)
    IN Reply("get_content", ip, r.status, [key |-> key], r.body)

\* a save that merges the payload into the stored document
set_content_merge(rows, key, payload) ==
    LET item == ContentRow(rows, key)
    IN IF Found(item)
       THEN (rows \ {item}) \cup {[item EXCEPT !.data = @ \cup payload]}
       ELSE rows \cup {[id |-> NextId(rows), key |-> key, data |-> payload]}

\* the rows after the handler's update-or-insert of (key, payload)
set_content(rows, key, payload) ==
    LET item == ContentRow(rows, key)
    IN IF Found(item)
       THEN (rows \ {item}) \cup {[item EXCEPT !.data = payload]}
       ELSE rows \cup {[id |-> NextId(rows), key |-> key, data |-> payload]}

SetContent(ip, hdr, key, payload) ==
    LET auth == require_admin(hdr, now)
        req == [key |-> key, data |-> payload, hdr |-> hdr]
    IN IF auth # 200
       THEN Reply("set_content", ip, auth, req, "Invalid token")
       ELSE /\ \A r \in set_content(content, key, payload) : r.id <= MaxId
            /\ content' = set_content(content, key, payload)
            /\ resp' = Response("set_content", ip, 200, req, "saved")
            /\ UNCHANGED <<now, issued, services, blogs, gallery, leads,
                           RATE_STORE, uploads, outbox, accepted, inflight>>

\* a delete that empties the table
delete_content_all(rows, key) == {}

delete_content(rows, key) == rows \ {ContentRow(rows, key)}

DeleteContent(ip, hdr, key) ==
    LET auth == require_admin(hdr, now)
        req == [key |-> key, hdr |-> hdr]
    IN IF auth # 200
       THEN Reply("delete_content", ip, auth, req, "Invalid token")
       ELSE IF ~Found(ContentRow(content, key))
       THEN Reply("delete_content", ip, 404, req, "Not found")
       ELSE /\ content' = delete_content(content, key)
            /\ resp' = Response("delete_content", ip, 200, req, "deleted")
            /\ UNCHANGED <<now, issued, services, blogs, gallery, leads,
                           RATE_STORE, uploads, outbox, accepted, inflight>>

(***************************************************************************)
(* The in-memory rate limiter.                                             *)
(***************************************************************************)
\* a limiter that lets one request too many through
rate_limit_one_more(method, ip, t, store) ==
    IF method # "POST" THEN [ok |-> TRUE, counted |-> FALSE, store |-> store]
    ELSE LET InWindow(ts) == t - ts < window
             lst == SelectSeq(store[ip], InWindow)
         IN IF Len(lst) > RATE_LIMIT_PER_MIN
            THEN [ok |-> FALSE, counted |-> FALSE, store |-> store]
            ELSE [ok |-> TRUE, counted |-> TRUE,
                  store |-> [store EXCEPT ![ip] = Append(lst, t)]]

\* a limiter with one list for all clients
rate_limit_one_list(method, ip, t, store) ==
    IF method # "POST" THEN [ok |-> TRUE, counted |-> FALSE, store |-> store]
    ELSE LET InWindow(ts) == t - ts < window
             shared == CHOOSE c \in DOMAIN store : TRUE
             lst == SelectSeq(store[shared], InWindow)
         IN IF Len(lst) >= RATE_LIMIT_PER_MIN
            THEN [ok |-> FALSE, counted |-> FALSE, store |-> store]
            ELSE [ok |-> TRUE, counted |-> TRUE,
                  store |-> [store EXCEPT ![shared] = Append(lst, t)]]

\* a limiter that records the refused request too
rate_limit_record_refused(method, ip, t, store) ==
    IF method # "POST" THEN [ok |-> TRUE, counted |-> FALSE, store |-> store]
    ELSE LET InWindow(ts) == t - ts < window
             lst == SelectSeq(store[ip], InWindow)
         IN [ok |-> Len(lst) < RATE_LIMIT_PER_MIN, counted |-> Len(lst) < RATE_LIMIT_PER_MIN,
             store |-> [store EXCEPT ![ip] = Append(lst, t)]]

\* rate_limit(request): whether the request may go on, and RATE_STORE after it
rate_limit(method, ip, t, store) ==
    IF method # "POST" THEN [ok |-> TRUE, counted |-> FALSE, store |-> store]
    ELSE LET InWindow(ts) == t - ts < window
             lst == SelectSeq(store[ip], InWindow)
         IN IF Len(lst) >= RATE_LIMIT_PER_MIN
            THEN [ok |-> FALSE, counted |-> FALSE, store |-> store]
            ELSE [ok |-> TRUE, counted |-> TRUE,
                  store |-> [store EXCEPT ![ip] = Append(lst, t)]]

\* the handlers that call rate_limit, and their routes
ThrottledOps == {"create_lead", "chatbot"}
Route(op) == IF op = "create_lead" THEN "/lead" ELSE "/chatbot"

\* the history of let-through requests after a throttled handler ran
Record(ip, route, rl) ==
    IF rl.counted THEN [accepted EXCEPT ![ip] = Append(@, [route |-> route, at |-> now])]
    ELSE accepted

(***************************************************************************)
(* POST /lead                                                              *)
(***************************************************************************)
Missing == "<missing>"

\* LeadSchema: name is required, email must be an e-mail address
LeadSchema(lead) == lead.name # Missing /\ IsEmail(lead.email)

\* what the SMTP block can meet; every exception is caught and printed
SmtpOutcomes == {"not configured", "sent", "connection refused", "timeout", "login failed"}

\* a handler that drops the lead when the mail could not be sent
persist_lead_if_mailed(rows, row, smtp) ==
    IF smtp \in {"not configured", "sent"} THEN rows \cup {row} ELSE rows

\* a handler that keeps one lead per e-mail address, the latest
persist_lead_latest(rows, row, smtp) == {r \in rows : r.email # row.email} \cup {row}

\* db.add + db.commit, then the SMTP block, whose exceptions are swallowed
persist_lead(rows, row, smtp) == rows \cup {row}

new_lead(rows, lead) ==
    [id |-> NextId(rows), name |-> lead.name, email |-> lead.email,
     phone |-> lead.phone, message |-> lead.message, created_at |-> now]

\* a handler that stores the lead before it asks the limiter
CreateLeadStoreFirst(ip, lead, smtp) ==
    IF ~LeadSchema(lead)
    THEN Reply("create_lead", ip, 422, lead, "validation error")
    ELSE LET rl == rate_limit("POST", ip, now, RATE_STORE)
             row == new_lead(leads, lead)
         IN /\ row.id <= MaxLeads
            /\ leads' = persist_lead(leads, row, smtp)
            /\ outbox' = IF smtp = "sent" THEN outbox \cup {row.id} ELSE outbox
            /\ RATE_STORE' = rl.store
            /\ accepted' = Record(ip, "/lead", rl)
            /\ resp' = IF rl.ok
                       THEN Response("create_lead", ip, 201, lead,
                                     [detail |-> "Lead received", id |-> row.id, smtp |-> smtp])
                       ELSE Response("create_lead", ip, 429, lead,
                                     "Too many requests - slow down")
            /\ UNCHANGED <<now, issued, content, services, blogs, gallery, uploads, inflight>>

CreateLead(ip, lead, smtp) ==
    IF ~LeadSchema(lead)
    THEN Reply("create_lead", ip, 422, lead, "validation error")
    ELSE LET rl == rate_limit("POST", ip, now, RATE_STORE)
             row == new_lead(leads, lead)
         IN IF ~rl.ok
            THEN /\ RATE_STORE' = rl.store
                 /\ accepted' = Record(ip, "/lead", rl)
                 /\ resp' = Response("create_lead", ip, 429, lead,
                                     "Too many requests - slow down")
                 /\ UNCHANGED <<now, issued, content, services, blogs, gallery, leads,
                                uploads, outbox, inflight>>
            ELSE /\ row.id <= MaxLeads
                 /\ RATE_STORE' = rl.store
                 /\ accepted' = Record(ip, "/lead", rl)
                 /\ leads' = persist_lead(leads, row, smtp)
                 /\ outbox' = IF smtp = "sent" THEN outbox \cup {row.id} ELSE outbox
                 /\ resp' = Response("create_lead", ip, 201, lead,
                                     [detail |-> "Lead received", id |-> row.id, smtp |-> smtp])
                 /\ UNCHANGED <<now, issued, content, services, blogs, gallery, uploads, inflight>>

(***************************************************************************)
(* POST /chatbot                                                           *)
(***************************************************************************)
Chatbot(ip, msg) ==
    LET rl == rate_limit("POST", ip, now, RATE_STORE)
    IN IF ~rl.ok
       THEN /\ RATE_STORE' = rl.store
            /\ accepted' = Record(ip, "/chatbot", rl)
            /\ resp' = Response("chatbot", ip, 429, msg, "Too many requests - slow down")
            /\ UNCHANGED <<now, issued, content, services, blogs, gallery, leads,
                           uploads, outbox, inflight>>
       ELSE /\ RATE_STORE' = rl.store
            /\ accepted' = Record(ip, "/chatbot", rl)
            /\ resp' = Response("chatbot", ip, 200, msg, [reply |-> msg])
            /\ UNCHANGED <<now, issued, content, services, blogs, gallery, leads,
                           uploads, outbox, inflight>>

(***************************************************************************)
(* Collections.  A UNIQUE column makes the commit of a duplicate fail with *)
(* an IntegrityError, which no handler catches: the request ends 500 and   *)
(* the session's changes are dropped.                                      *)
(***************************************************************************)
UniqueSlug(rows) == \A a, b \in rows : a.slug = b.slug => a.id = b.id

BySlug(rows, slug) == First({r \in rows : r.slug = slug})
ById(rows, id) == First({r \in rows : r.id = id})

\* an update that always takes the request's data
Always(d, fallback) == d

\* payload.data or {} ; payload.data or r.data
OrElse(d, fallback) == IF Truthy(d) THEN d ELSE fallback

(***************************************************************************)
(* Services CRUD                                                           *)
(***************************************************************************)
create_service(rows, payload) ==
    LET s == [id |-> NextId(rows), slug |-> payload.slug, name |-> payload.name,
              category |-> payload.category, data |-> OrElse(payload.data, EmptyDoc)]
    IN IF ~UniqueSlug(rows \cup {s})
       THEN [status |-> 500, rows |-> rows, body |-> "IntegrityError"]
       ELSE [status |-> 200, rows |-> rows \cup {s}, body |-> [id |-> s.id, slug |-> s.slug]]

\* a listing that reads through an open bulk replace
list_services_dirty(rows) ==
    LET open == {w \in DOMAIN inflight :
                    inflight[w].pc \in {"replace_insert", "replace_commit"}}
    IN IF open = {} THEN rows ELSE inflight[CHOOSE w \in open : TRUE].tx

list_services(rows) == rows

get_service(rows, slug) ==
    LET r == BySlug(rows, slug)
    IN IF ~Found(r) THEN [status |-> 404, body |-> "Not found"]
       ELSE [status |-> 200, body |-> r]

\* an update that leaves the slug column alone
update_service_keep_slug(rows, slug, payload) ==
    LET r == BySlug(rows, slug)
        u == [r EXCEPT !.name = payload.name, !.category = payload.category,
                       !.data = OrElse(payload.data, r.data)]
    IN IF ~Found(r) THEN [status |-> 404, rows |-> rows, body |-> "Not found"]
       ELSE [status |-> 200, rows |-> (rows \ {r}) \cup {u}, body |-> "updated"]

update_service(rows, slug, payload) ==
    LET r == BySlug(rows, slug)
        u == [r EXCEPT !.slug = payload.slug, !.name = payload.name,
                       !.category = payload.category,
                       !.data = OrElse(payload.data, r.data)]
        after == (rows \ {r}) \cup {u}
    IN IF ~Found(r) THEN [status |-> 404, rows |-> rows, body |-> "Not found"]
       ELSE IF ~UniqueSlug(after)
       THEN [status |-> 500, rows |-> rows, body |-> "IntegrityError"]
       ELSE [status |-> 200, rows |-> after, body |-> "updated"]

delete_service(rows, slug) ==
    LET r == BySlug(rows, slug)
    IN IF ~Found(r) THEN [status |-> 404, rows |-> rows, body |-> "Not found"]
       ELSE [status |-> 200, rows |-> rows \ {r}, body |-> "deleted"]

CreateService(ip, hdr, payload) ==
    LET auth == require_admin(hdr, now)
        r == create_service(services, payload)
        req == [payload |-> payload, hdr |-> hdr]
    IN IF auth # 200
       THEN Reply("create_service", ip, auth, req, "Invalid token")
       ELSE /\ \A x \in r.rows : x.id <= MaxId
            /\ services' = r.rows
            /\ resp' = Response("create_service", ip, r.status, req, r.body)
            /\ UNCHANGED <<now, issued, content, blogs, gallery, leads,
                           RATE_STORE, uploads, outbox, accepted, inflight>>

ListServices(ip) == Reply("list_services", ip, 200, <<>>, list_services(services))

GetService(ip, slug) ==
    LET r == get_service(services, slug)
    IN Reply("get_service", ip, r.status, [slug |-> slug], r.body)

UpdateService(ip, hdr, slug, payload) ==
    LET auth == require_admin(hdr, now)
        r == update_service(services, slug, payload)
        req == [slug |-> slug, payload |-> payload, hdr |-> hdr]
    IN IF auth # 200
       THEN Reply("update_service", ip, auth, req, "Invalid token")
       ELSE /\ services' = r.rows
            /\ resp' = Response("update_service", ip, r.status, req, r.body)
            /\ UNCHANGED <<now, issued, content, blogs, gallery, leads,
                           RATE_STORE, uploads, outbox, accepted, inflight>>

DeleteService(ip, hdr, slug) ==
    LET auth == require_admin(hdr, now)
        r == delete_service(services, slug)
        req == [slug |-> slug, hdr |-> hdr]
    IN IF auth # 200
       THEN Reply("delete_service", ip, auth, req, "Invalid token")
       ELSE /\ services' = r.rows
            /\ resp' = Response("delete_service", ip, r.status, req, r.body)
            /\ UNCHANGED <<now, issued, content, blogs, gallery, leads,
                           RATE_STORE, uploads, outbox, accepted, inflight>>

(***************************************************************************)
(* Blogs CRUD                                                              *)
(***************************************************************************)
create_blog(rows, payload) ==
    LET b == [id |-> NextId(rows), slug |-> payload.slug, title |-> payload.title,
              data |-> OrElse(payload.data, EmptyDoc)]
    IN IF ~UniqueSlug(rows \cup {b})
       THEN [status |-> 500, rows |-> rows, body |-> "IntegrityError"]
       ELSE [status |-> 200, rows |-> rows \cup {b}, body |-> [id |-> b.id, slug |-> b.slug]]

list_blogs(rows) == rows

get_blog(rows, slug) ==
    LET r == BySlug(rows, slug)
    IN IF ~Found(r) THEN [status |-> 404, body |-> "Not found"]
       ELSE [status |-> 200, body |-> r]

update_blog(rows, slug, payload) ==
    LET r == BySlug(rows, slug)
        u == [r EXCEPT !.slug = payload.slug, !.title = payload.title,
                       !.data = OrElse(payload.data, r.data)]
        after == (rows \ {r}) \cup {u}
    IN IF ~Found(r) THEN [status |-> 404, rows |-> rows, body |-> "Not found"]
       ELSE IF ~UniqueSlug(after)
       THEN [status |-> 500, rows |-> rows, body |-> "IntegrityError"]
       ELSE [status |-> 200, rows |-> after, body |-> "updated"]

delete_blog(rows, slug) ==
    LET r == BySlug(rows, slug)
    IN IF ~Found(r) THEN [status |-> 404, rows |-> rows, body |-> "Not found"]
       ELSE [status |-> 200, rows |-> rows \ {r}, body |-> "deleted"]

CreateBlog(ip, hdr, payload) ==
    LET auth == require_admin(hdr, now)
        r == create_blog(blogs, payload)
        req == [payload |-> payload, hdr |-> hdr]
    IN IF auth # 200
       THEN Reply("create_blog", ip, auth, req, "Invalid token")
       ELSE /\ \A x \in r.rows : x.id <= MaxId
            /\ blogs' = r.rows
            /\ resp' = Response("create_blog", ip, r.status, req, r.body)
            /\ UNCHANGED <<now, issued, content, services, gallery, leads,
                           RATE_STORE, uploads, outbox, accepted, inflight>>

ListBlogs(ip) == Reply("list_blogs", ip, 200, <<>>, list_blogs(blogs))

GetBlog(ip, slug) ==
    LET r == get_blog(blogs, slug)
    IN Reply("get_blog", ip, r.status, [slug |-> slug], r.body)

UpdateBlog(ip, hdr, slug, payload) ==
    LET auth == require_admin(hdr, now)
        r == update_blog(blogs, slug, payload)
        req == [slug |-> slug, payload |-> payload, hdr |-> hdr]
    IN IF auth # 200
       THEN Reply("update_blog", ip, auth, req, "Invalid token")
       ELSE /\ blogs' = r.rows
            /\ resp' = Response("update_blog", ip, r.status, req, r.body)
            /\ UNCHANGED <<now, issued, content, services, gallery, leads,
                           RATE_STORE, uploads, outbox, accepted, inflight>>

DeleteBlog(ip, hdr, slug) ==
    LET auth == require_admin(hdr, now)
        r == delete_blog(blogs, slug)
        req == [slug |-> slug, hdr |-> hdr]
    IN IF auth # 200
       THEN Reply("delete_blog", ip, auth, req, "Invalid token")
       ELSE /\ blogs' = r.rows
            /\ resp' = Response("delete_blog", ip, r.status, req, r.body)
            /\ UNCHANGED <<now, issued, content, services, gallery, leads,
                           RATE_STORE, uploads, outbox, accepted, inflight>>

(***************************************************************************)
(* Gallery CRUD: rows are addressed by id; no column is UNIQUE.            *)
(***************************************************************************)
create_gallery(rows, payload) ==
    LET g == [id |-> NextId(rows), title |-> payload.title,
              category |-> payload.category, data |-> OrElse(payload.data, EmptyDoc)]
    IN [status |-> 200, rows |-> rows \cup {g}, body |-> [id |-> g.id]]

list_gallery(rows) == rows

get_gallery_item(rows, item_id) ==
    LET r == ById(rows, item_id)
    IN IF ~Found(r) THEN [status |-> 404, body |-> "Not found"]
       ELSE [status |-> 200, body |-> r]

update_gallery(rows, item_id, payload) ==
    LET r == ById(rows, item_id)
        u == [r EXCEPT !.title = payload.title, !.category = payload.category,
                       !.data = OrElse(payload.data, r.data)]
    IN IF ~Found(r) THEN [status |-> 404, rows |-> rows, body |-> "Not found"]
       ELSE [status |-> 200, rows |-> (rows \ {r}) \cup {u}, body |-> "updated"]

delete_gallery(rows, item_id) ==
    LET r == ById(rows, item_id)
    IN IF ~Found(r) THEN [status |-> 404, rows |-> rows, body |-> "Not found"]
       ELSE [status |-> 200, rows |-> rows \ {r}, body |-> "deleted"]

CreateGallery(ip, hdr, payload) ==
    LET auth == require_admin(hdr, now)
        r == create_gallery(gallery, payload)
        req == [payload |-> payload, hdr |-> hdr]
    IN IF auth # 200
       THEN Reply("create_gallery", ip, auth, req, "Invalid token")
       ELSE /\ \A x \in r.rows : x.id <= MaxId
            /\ gallery' = r.rows
            /\ resp' = Response("create_gallery", ip, r.status, req, r.body)
            /\ UNCHANGED <<now, issued, content, services, blogs, leads,
                           RATE_STORE, uploads, outbox, accepted, inflight>>

ListGallery(ip) == Reply("list_gallery", ip, 200, <<>>, list_gallery(gallery))

GetGalleryItem(ip, item_id) ==
    LET r == get_gallery_item(gallery, item_id)
    IN Reply("get_gallery_item", ip, r.status, [id |-> item_id], r.body)

UpdateGallery(ip, hdr, item_id, payload) ==
    LET auth == require_admin(hdr, now)
        r == update_gallery(gallery, item_id, payload)
        req == [id |-> item_id, payload |-> payload, hdr |-> hdr]
    IN IF auth # 200
       THEN Reply("update_gallery", ip, auth, req, "Invalid token")
       ELSE /\ gallery' = r.rows
            /\ resp' = Response("update_gallery", ip, r.status, req, r.body)
            /\ UNCHANGED <<now, issued, content, services, blogs, leads,
                           RATE_STORE, uploads, outbox, accepted, inflight>>

DeleteGallery(ip, hdr, item_id) ==
    LET auth == require_admin(hdr, now)
        r == delete_gallery(gallery, item_id)
        req == [id |-> item_id, hdr |-> hdr]
    IN IF auth # 200
       THEN Reply("delete_gallery", ip, auth, req, "Invalid token")
       ELSE /\ gallery' = r.rows
            /\ resp' = Response("delete_gallery", ip, r.status, req, r.body)
            /\ UNCHANGED <<now, issued, content, services, blogs, leads,
                           RATE_STORE, uploads, outbox, accepted, inflight>>

(***************************************************************************)
(* POST /upload-image: Supabase first, the uploads/ directory otherwise.   *)
(***************************************************************************)
upload_image(files, fname, public_url) ==
    IF public_url THEN files ELSE files \cup {<<now, fname>>}

UploadImage(ip, hdr, fname, public_url) ==
    LET auth == require_admin(hdr, now)
        req == [filename |-> fname, hdr |-> hdr]
    IN IF auth # 200
       THEN Reply("upload_image", ip, auth, req, "Invalid token")
       ELSE /\ uploads' = upload_image(uploads, fname, public_url)
            /\ resp' = Response("upload_image", ip, 200, req, <<now, fname>>)
            /\ UNCHANGED <<now, issued, content, services, blogs, gallery, leads,
                           RATE_STORE, outbox, accepted, inflight>>

(***************************************************************************)
(* POST /seed: every seed_data/*.json that parses is saved under its stem. *)
(* `files` is the directory listing in glob order, stems distinct; a file  *)
(* that does not parse has data BadJson and is skipped.                    *)
(***************************************************************************)
BadJson == {"<not json>"}

RECURSIVE seed_all(_, _)
seed_all(rows, files) ==
    IF files = <<>> THEN rows
    ELSE LET f == Head(files)
         IN IF f.data = BadJson THEN seed_all(rows, Tail(files))
            ELSE seed_all(set_content(rows, f.key, f.data), Tail(files))

RECURSIVE inserted(_)
inserted(files) ==
    IF files = <<>> THEN <<>>
    ELSE IF Head(files).data = BadJson THEN inserted(Tail(files))
    ELSE <<Head(files).key>> \o inserted(Tail(files))

SeedAll(ip, hdr, dir_exists, files) ==
    LET auth == require_admin(hdr, now)
        req == [files |-> files, hdr |-> hdr]
    IN IF auth # 200
       THEN Reply("seed_all", ip, auth, req, "Invalid token")
       ELSE IF ~dir_exists
       THEN Reply("seed_all", ip, 200, req, "No seed_data directory found")
       ELSE /\ \A r \in seed_all(content, files) : r.id <= MaxId
            /\ content' = seed_all(content, files)
            /\ resp' = Response("seed_all", ip, 200, req, inserted(files))
            /\ UNCHANGED <<now, issued, services, blogs, gallery, leads,
                           RATE_STORE, uploads, outbox, accepted, inflight>>

(***************************************************************************)
(* Inputs.                                                                 *)
(***************************************************************************)
Admin == "10.0.0.1"

AdminUpper == <<"A","d","m","i","n","@","E","X",".","c","o","m">>
OtherEmail == <<"o","t","h","e","r","@","e","x",".","c","o","m">>
NotAnEmail == <<"a","d","m","i","n">>
LoginEmails == {ADMIN_EMAIL, AdminUpper, OtherEmail, NotAnEmail}
LoginPasswords == {ADMIN_PASSWORD, "Changeme", "wrong"}

SeedFiles(keys, docs) == {[key |-> k, data |-> d] : k \in keys, d \in docs \cup {BadJson}}
Listings(keys, docs) ==
    {<<>>} \cup {<<f>> : f \in SeedFiles(keys, docs)}
           \cup {fg \in SeedFiles(keys, docs) \X SeedFiles(keys, docs) : fg[1].key # fg[2].key}

Slugs == {"solar", "roofing"}
Names == {"Solar", "Roofing"}
SomeDoc == {"title"}
ServicePayloads(slugs, names, docs) ==
    {[slug |-> sl, name |-> n, category |-> "", data |-> d] :
        sl \in slugs, n \in names, d \in docs}
BlogPayloads(slugs, names, docs) ==
    {[slug |-> sl, title |-> n, data |-> d] : sl \in slugs, n \in names, d \in docs}
GalleryPayloads(names, docs) ==
    {[title |-> n, category |-> "", data |-> d] : n \in names, d \in docs}

AnEmail == <<"a","@","b">>
OneLead == [name |-> "Ann", email |-> AnEmail, phone |-> "", message |-> "call me"]
Leads ==
    {OneLead,
     [name |-> "Ann", email |-> NotAnEmail, phone |-> "", message |-> "call me"],
     [name |-> Missing, email |-> AnEmail, phone |-> "", message |-> ""]}

(***************************************************************************)
(* The content store alone.                                                *)
(***************************************************************************)
NextContent ==
    \/ AdminLogin(Admin, ADMIN_EMAIL, ADMIN_PASSWORD)
    \/ \E hdr \in Headers(now, Tokens), k \in Keys, d \in Docs : SetContent(Admin, hdr, k, d)
    \/ \E k \in Keys : GetContent(Admin, k)
    \/ \E hdr \in Headers(now, Tokens), k \in Keys : DeleteContent(Admin, hdr, k)
    \/ \E hdr \in Headers(now, Tokens), dir \in BOOLEAN, files \in Listings(Keys, {SomeDoc}) :
            SeedAll(Admin, hdr, dir, files)

SpecContent == Init /\ [][NextContent]_vars

(***************************************************************************)
(* Every administrator-only handler, each with one payload, under every    *)
(* kind of authorization header.                                           *)
(***************************************************************************)
OneService == [slug |-> "solar", name |-> "Solar", category |-> "", data |-> SomeDoc]
OneBlog == [slug |-> "solar", title |-> "Solar", data |-> SomeDoc]
OneGalleryItem == [title |-> "Solar", category |-> "", data |-> SomeDoc]
OneListing == <<[key |-> "homepage", data |-> SomeDoc]>>

NextAdmin ==
    \/ AdminLogin(Admin, ADMIN_EMAIL, ADMIN_PASSWORD)
    \/ CreateLead(Admin, OneLead, "not configured")
    \/ \E hdr \in Headers(now, Tokens) : SetContent(Admin, hdr, "homepage", SomeDoc)
    \/ \E hdr \in Headers(now, Tokens) : DeleteContent(Admin, hdr, "homepage")
    \/ \E hdr \in Headers(now, Tokens) : CreateService(Admin, hdr, OneService)
    \/ \E hdr \in Headers(now, Tokens) : UpdateService(Admin, hdr, "solar", OneService)
    \/ \E hdr \in Headers(now, Tokens) : DeleteService(Admin, hdr, "solar")
    \/ \E hdr \in Headers(now, Tokens) : CreateBlog(Admin, hdr, OneBlog)
    \/ \E hdr \in Headers(now, Tokens) : UpdateBlog(Admin, hdr, "solar", OneBlog)
    \/ \E hdr \in Headers(now, Tokens) : DeleteBlog(Admin, hdr, "solar")
    \/ \E hdr \in Headers(now, Tokens) : CreateGallery(Admin, hdr, OneGalleryItem)
    \/ \E hdr \in Headers(now, Tokens) : UpdateGallery(Admin, hdr, 1, OneGalleryItem)
    \/ \E hdr \in Headers(now, Tokens) : DeleteGallery(Admin, hdr, 1)
    \/ \E hdr \in Headers(now, Tokens), url \in BOOLEAN : UploadImage(Admin, hdr, "a.png", url)
    \/ \E hdr \in Headers(now, Tokens), dir \in BOOLEAN : SeedAll(Admin, hdr, dir, OneListing)

SpecAdmin == Init /\ [][NextAdmin]_vars

(***************************************************************************)
(* Login, the clock and one guarded handler.                               *)
(***************************************************************************)
NextAuth ==
    \/ Tick
    \/ \E e \in LoginEmails, pw \in LoginPasswords : AdminLogin(Admin, e, pw)
    \/ \E hdr \in Headers(now, Tokens) : SetContent(Admin, hdr, "homepage", SomeDoc)
    \/ \E hdr \in Headers(now, Tokens) : DeleteContent(Admin, hdr, "homepage")
    \/ GetContent(Admin, "homepage")

SpecAuth == Init /\ [][NextAuth]_vars

(***************************************************************************)
(* The throttled handlers and the clock.                                   *)
(***************************************************************************)
NextRate ==
    \/ Tick
    \/ \E ip \in Clients : CreateLead(ip, OneLead, "not configured")
    \/ \E ip \in Clients : Chatbot(ip, "hello")

SpecRate == Init /\ [][NextRate]_vars

(***************************************************************************)
(* Throttled and unthrottled requests of one client within one second.     *)
(***************************************************************************)
NextWrites ==
    \/ \E lead \in Leads : CreateLead(Admin, lead, "not configured")
    \/ Chatbot(Admin, "hello")
    \/ AdminLogin(Admin, ADMIN_EMAIL, ADMIN_PASSWORD)
    \/ \E hdr \in {NoAuth} \cup {Bearer(tok) : tok \in Tokens}, d \in {EmptyDoc, SomeDoc} :
            SetContent(Admin, hdr, "homepage", d)
    \/ \E tok \in Tokens : DeleteContent(Admin, Bearer(tok), "homepage")
    \/ GetContent(Admin, "homepage")
    \/ \E tok \in Tokens : CreateService(Admin, Bearer(tok), OneService)
    \/ \E tok \in Tokens : UpdateService(Admin, Bearer(tok), "solar", OneService)
    \/ \E tok \in Tokens : DeleteService(Admin, Bearer(tok), "solar")
    \/ ListServices(Admin)
    \/ GetService(Admin, "solar")

SpecWrites == Init /\ [][NextWrites]_vars

(***************************************************************************)
(* Lead intake under every outcome of the notification.                    *)
(***************************************************************************)
NextLead ==
    \/ Tick
    \/ \E lead \in Leads, smtp \in SmtpOutcomes : CreateLead(Admin, lead, smtp)

SpecLead == Init /\ [][NextLead]_vars

(***************************************************************************)
(* Each collection under an administrator's requests.                      *)
(***************************************************************************)
AdminHeaders == {NoAuth} \cup {Bearer(tok) : tok \in Tokens}
Ids == 1..MaxId
CollDocs == {EmptyDoc, SomeDoc}

NextServices ==
    \/ AdminLogin(Admin, ADMIN_EMAIL, ADMIN_PASSWORD)
    \/ \E hdr \in AdminHeaders, p \in ServicePayloads(Slugs, Names, CollDocs) :
            CreateService(Admin, hdr, p)
    \/ \E hdr \in AdminHeaders, sl \in Slugs, p \in ServicePayloads(Slugs, Names, CollDocs) :
            UpdateService(Admin, hdr, sl, p)
    \/ \E hdr \in AdminHeaders, sl \in Slugs : DeleteService(Admin, hdr, sl)
    \/ ListServices(Admin)
    \/ \E sl \in Slugs : GetService(Admin, sl)

SpecServices == Init /\ [][NextServices]_vars

NextBlogs ==
    \/ AdminLogin(Admin, ADMIN_EMAIL, ADMIN_PASSWORD)
    \/ \E hdr \in AdminHeaders, p \in BlogPayloads(Slugs, Names, CollDocs) :
            CreateBlog(Admin, hdr, p)
    \/ \E hdr \in AdminHeaders, sl \in Slugs, p \in BlogPayloads(Slugs, Names, CollDocs) :
            UpdateBlog(Admin, hdr, sl, p)
    \/ \E hdr \in AdminHeaders, sl \in Slugs : DeleteBlog(Admin, hdr, sl)
    \/ ListBlogs(Admin)
    \/ \E sl \in Slugs : GetBlog(Admin, sl)

SpecBlogs == Init /\ [][NextBlogs]_vars

NextGallery ==
    \/ AdminLogin(Admin, ADMIN_EMAIL, ADMIN_PASSWORD)
    \/ \E hdr \in AdminHeaders, p \in GalleryPayloads(Names, CollDocs) :
            CreateGallery(Admin, hdr, p)
    \/ \E hdr \in AdminHeaders, id \in Ids, p \in GalleryPayloads(Names, CollDocs) :
            UpdateGallery(Admin, hdr, id, p)
    \/ \E hdr \in AdminHeaders, id \in Ids : DeleteGallery(Admin, hdr, id)
    \/ ListGallery(Admin)
    \/ \E id \in Ids : GetGalleryItem(Admin, id)

SpecGallery == Init /\ [][NextGallery]_vars

(***************************************************************************)
(* The content handlers as the thread pool runs them.  Every handler has   *)
(* its own database session: it reads the row with a query and writes at   *)
(* db.commit(), and the commit of another worker may fall between the two. *)
(***************************************************************************)
\* a key column without the UNIQUE constraint
NoUniqueKey(rows) == TRUE

\* Content.key is UNIQUE
UniqueKey(rows) == \A a, b \in rows : a.key = b.key => a.id = b.id

\* a commit that always adds a new row
content_commit_insert(rows, item, key, payload) ==
    LET new == [id |-> NextId(rows), key |-> key, data |-> payload]
    IN IF ~UniqueKey(rows \cup {new})
       THEN [status |-> 500, body |-> "IntegrityError", rows |-> rows]
       ELSE [status |-> 200, body |-> "saved", rows |-> rows \cup {new}]

\* db.commit() of a session that read `item` and then assigned item.data =
\* payload (an UPDATE by primary key, emitted only when the value differs from
\* the one read; matching no row it raises StaleDataError) or, having read no
\* row, added Content(key, payload) (an INSERT; a duplicate key raises
\* IntegrityError).  No handler catches either error: status 500.
content_commit(rows, item, key, payload) ==
    LET cur == {r \in rows : r.id = item.id}
        new == [id |-> NextId(rows), key |-> key, data |-> payload]
    IN IF Found(item)
       THEN IF item.data = payload
            THEN [status |-> 200, body |-> "saved", rows |-> rows]
            ELSE IF cur = {}
            THEN [status |-> 500, body |-> "StaleDataError", rows |-> rows]
            ELSE [status |-> 200, body |-> "saved",
                  rows |-> (rows \ cur) \cup {[r EXCEPT !.data = payload] : r \in cur}]
       ELSE IF ~UniqueKey(rows \cup {new})
            THEN [status |-> 500, body |-> "IntegrityError", rows |-> rows]
            ELSE [status |-> 200, body |-> "saved", rows |-> rows \cup {new}]

\* the workers in the middle of a set_content of `key`, other than w
SettingKey(w, key) ==
    {v \in Workers \ {w} : inflight[v].pc = "set_commit" /\ inflight[v].req.key = key}

\* require_admin and the query; `rivals` remembers the documents of the
\* set_content calls of the same key that overlap this one (the response
\* record carries it along with the request)
SetContentBegin(w, ip, hdr, key, payload) ==
    LET auth == require_admin(hdr, now)
        req == [key |-> key, data |-> payload, hdr |-> hdr]
    IN /\ inflight[w].pc = "idle"
       /\ IF auth # 200
          THEN Reply("set_content", ip, auth, req, "Invalid token")
          ELSE /\ inflight' =
                    [v \in Workers |->
                        IF v = w
                        THEN [pc |-> "set_commit", ip |-> ip, req |-> req,
                              item |-> ContentRow(content, key),
                              rivals |-> {inflight[u].req.data : u \in SettingKey(w, key)}]
                        ELSE IF v \in SettingKey(w, key)
                        THEN [inflight[v] EXCEPT !.rivals = @ \cup {payload}]
                        ELSE inflight[v]]
               /\ UNCHANGED <<now, issued, content, services, blogs, gallery, leads,
                              RATE_STORE, uploads, outbox, accepted, resp>>

SetContentCommit(w) ==
    /\ inflight[w].pc = "set_commit"
    /\ LET c == inflight[w]
           r == content_commit(content, c.item, c.req.key, c.req.data)
       IN /\ \A x \in r.rows : x.id <= MaxId
          /\ content' = r.rows
          /\ resp' = Response("set_content", c.ip, r.status,
                               [key |-> c.req.key, data |-> c.req.data, hdr |-> c.req.hdr,
                                rivals |-> c.rivals],
                               r.body)
          /\ inflight' = [inflight EXCEPT ![w] = Idle]
          /\ UNCHANGED <<now, issued, services, blogs, gallery, leads,
                         RATE_STORE, uploads, outbox, accepted>>

DeleteContentBegin(w, ip, hdr, key) ==
    LET auth == require_admin(hdr, now)
        req == [key |-> key, hdr |-> hdr]
        item == ContentRow(content, key)
    IN /\ inflight[w].pc = "idle"
       /\ IF auth # 200
          THEN Reply("delete_content", ip, auth, req, "Invalid token")
          ELSE IF ~Found(item)
          THEN Reply("delete_content", ip, 404, req, "Not found")
          ELSE /\ inflight' = [inflight EXCEPT ![w] =
                                  [pc |-> "delete_commit", ip |-> ip, req |-> req, item |-> item]]
               /\ UNCHANGED <<now, issued, content, services, blogs, gallery, leads,
                              RATE_STORE, uploads, outbox, accepted, resp>>

\* db.delete(item); db.commit(): a DELETE by primary key (matching no row is
\* only a warning)
DeleteContentCommit(w) ==
    /\ inflight[w].pc = "delete_commit"
    /\ LET c == inflight[w]
       IN /\ content' = {r \in content : r.id # c.item.id}
          /\ resp' = Response("delete_content", c.ip, 200, c.req, "deleted")
          /\ inflight' = [inflight EXCEPT ![w] = Idle]
          /\ UNCHANGED <<now, issued, services, blogs, gallery, leads,
                         RATE_STORE, uploads, outbox, accepted>>

\* seed_all up to its loop
SeedBegin(w, ip, hdr, dir_exists, files) ==
    LET auth == require_admin(hdr, now)
        req == [files |-> files, hdr |-> hdr]
    IN /\ inflight[w].pc = "idle"
       /\ IF auth # 200
          THEN Reply("seed_all", ip, auth, req, "Invalid token")
          ELSE IF ~dir_exists
          THEN Reply("seed_all", ip, 200, req, "No seed_data directory found")
          ELSE /\ inflight' = [inflight EXCEPT ![w] =
                                  [pc |-> "seed_next", ip |-> ip, req |-> req,
                                   rest |-> files, inserted |-> <<>>, item |-> NoRow]]
               /\ UNCHANGED <<now, issued, content, services, blogs, gallery, leads,
                              RATE_STORE, uploads, outbox, accepted, resp>>

\* the head of one round of the loop: the file is read and the row queried;
\* after the last file the handler returns the keys it saved
SeedNext(w) ==
    /\ inflight[w].pc = "seed_next"
    /\ LET c == inflight[w]
       IN IF c.rest = <<>>
          THEN /\ resp' = Response("seed_all", c.ip, 200, c.req, c.inserted)
               /\ inflight' = [inflight EXCEPT ![w] = Idle]
               /\ UNCHANGED <<now, issued, content, services, blogs, gallery, leads,
                              RATE_STORE, uploads, outbox, accepted>>
          ELSE /\ inflight' = [inflight EXCEPT ![w] =
                                  IF Head(c.rest).data = BadJson
                                  THEN [c EXCEPT !.rest = Tail(@)]
                                  ELSE [c EXCEPT !.pc = "seed_commit",
                                                 !.item = ContentRow(content, Head(c.rest).key)]]
               /\ UNCHANGED <<now, issued, content, services, blogs, gallery, leads,
                              RATE_STORE, uploads, outbox, accepted, resp>>

\* the commit of one round; an error ends the request, the rounds committed
\* before it stay
SeedCommit(w) ==
    /\ inflight[w].pc = "seed_commit"
    /\ LET c == inflight[w]
           f == Head(c.rest)
           r == content_commit(content, c.item, f.key, f.data)
       IN /\ \A x \in r.rows : x.id <= MaxId
          /\ content' = r.rows
          /\ IF r.status # 200
             THEN /\ resp' = Response("seed_all", c.ip, r.status, c.req, r.body)
                  /\ inflight' = [inflight EXCEPT ![w] = Idle]
             ELSE /\ inflight' = [inflight EXCEPT ![w] =
                                     [c EXCEPT !.pc = "seed_next", !.rest = Tail(@),
                                               !.inserted = Append(@, f.key)]]
                  /\ UNCHANGED resp
          /\ UNCHANGED <<now, issued, services, blogs, gallery, leads,
                         RATE_STORE, uploads, outbox, accepted>>

OtherDoc == {"body"}

\* two workers saving, deleting and seeding documents, all with the
\* administrator's token
NextContentThreads ==
    \/ AdminLogin(Admin, ADMIN_EMAIL, ADMIN_PASSWORD)
    \/ \E w \in Workers, tok \in Tokens, d \in {SomeDoc, OtherDoc} :
            SetContentBegin(w, Admin, Bearer(tok), "homepage", d)
    \/ \E w \in Workers, tok \in Tokens : SetContentBegin(w, Admin, Bearer(tok), "seo", SomeDoc)
    \/ \E w \in Workers : SetContentCommit(w)
    \/ \E w \in Workers, tok \in Tokens : DeleteContentBegin(w, Admin, Bearer(tok), "homepage")
    \/ \E w \in Workers : DeleteContentCommit(w)
    \/ \E w \in Workers, tok \in Tokens : SeedBegin(w, Admin, Bearer(tok), TRUE, OneListing)
    \/ \E w \in Workers : SeedNext(w)
    \/ \E w \in Workers : SeedCommit(w)

SpecContentThreads == Init /\ [][NextContentThreads]_vars

\* two workers saving documents under one key
NextSetRace ==
    \/ AdminLogin(Admin, ADMIN_EMAIL, ADMIN_PASSWORD)
    \/ \E w \in Workers, tok \in Tokens, d \in {SomeDoc, OtherDoc} :
            SetContentBegin(w, Admin, Bearer(tok), "homepage", d)
    \/ \E w \in Workers : SetContentCommit(w)
    \/ GetContent(Admin, "homepage")

SpecSetRace == Init /\ [][NextSetRace]_vars

(***************************************************************************)
(* Bulk replace of the services (Collection Manager, replaceAll).  The     *)
(* delete of the old records and the inserts of the new ones run in one    *)
(* storage transaction: other sessions see its changes from the commit     *)
(* on, and a second bulk replace starts when the first has ended.          *)
(***************************************************************************)
Replacing ==
    {w \in Workers : inflight[w].pc \in {"replace_delete", "replace_insert", "replace_commit"}}

\* the record of one item of a bulk replace
replace_row(rows, item) ==
    [id |-> NextId(rows), slug |-> item.slug, name |-> item.name,
     category |-> item.category, data |-> OrElse(item.data, EmptyDoc)]

ReplaceAllBegin(w, ip, hdr, items) ==
    LET auth == require_admin(hdr, now)
        req == [items |-> items, hdr |-> hdr]
    IN /\ inflight[w].pc = "idle"
       /\ IF auth # 200
          THEN Reply("replace_all", ip, auth, req, "Invalid token")
          ELSE /\ Replacing = {}
               /\ inflight' = [inflight EXCEPT ![w] =
                                  [pc |-> "replace_delete", ip |-> ip, req |-> req,
                                   old |-> services, tx |-> services, rest |-> items]]
               /\ UNCHANGED <<now, issued, content, services, blogs, gallery, leads,
                              RATE_STORE, uploads, outbox, accepted, resp>>

\* the delete of every record of the kind, inside the transaction
ReplaceDelete(w) ==
    /\ inflight[w].pc = "replace_delete"
    /\ inflight' = [inflight EXCEPT ![w] = [@ EXCEPT !.pc = "replace_insert", !.tx = {}]]
    /\ UNCHANGED <<now, issued, content, services, blogs, gallery, leads,
                   RATE_STORE, uploads, outbox, accepted, resp>>

\* the insert of the next item, inside the transaction; an item without a
\* key is skipped
ReplaceInsert(w) ==
    /\ inflight[w].pc = "replace_insert"
    /\ LET c == inflight[w]
       IN inflight' = [inflight EXCEPT ![w] =
            IF c.rest = <<>> THEN [c EXCEPT !.pc = "replace_commit"]
            ELSE IF Head(c.rest).slug = Missing THEN [c EXCEPT !.rest = Tail(@)]
            ELSE [c EXCEPT !.rest = Tail(@),
                           !.tx = @ \cup {replace_row(c.tx, Head(c.rest))}]]
    /\ UNCHANGED <<now, issued, content, services, blogs, gallery, leads,
                   RATE_STORE, uploads, outbox, accepted, resp>>

ReplaceCommit(w) ==
    /\ inflight[w].pc = "replace_commit"
    /\ LET c == inflight[w]
       IN /\ services' = c.tx
          /\ resp' = Response("replace_all", c.ip, 200, c.req, Cardinality(c.tx))
          /\ inflight' = [inflight EXCEPT ![w] = Idle]
          /\ UNCHANGED <<now, issued, content, blogs, gallery, leads,
                         RATE_STORE, uploads, outbox, accepted>>

Roofing == [slug |-> "roofing", name |-> "Roofing", category |-> "", data |-> EmptyDoc]
NoSlug == [slug |-> Missing, name |-> "Windows", category |-> "", data |-> SomeDoc]
ItemLists == {<<>>, <<OneService>>, <<Roofing, OneService>>, <<NoSlug, Roofing>>}

NextReplace ==
    \/ AdminLogin(Admin, ADMIN_EMAIL, ADMIN_PASSWORD)
    \/ \E w \in Workers, hdr \in AdminHeaders, items \in ItemLists :
            ReplaceAllBegin(w, Admin, hdr, items)
    \/ \E w \in Workers : ReplaceDelete(w)
    \/ \E w \in Workers : ReplaceInsert(w)
    \/ \E w \in Workers : ReplaceCommit(w)
    \/ ListServices(Admin)

SpecReplace == Init /\ [][NextReplace]_vars

(***************************************************************************)
(* The throttled handlers as the thread pool runs them.  rate_limit reads  *)
(* the client's list, prunes it into a new list, checks its length,        *)
(* appends the time to the new list and assigns it to RATE_STORE[ip]; no   *)
(* lock is held, so another worker may run between the read and the        *)
(* assignment.                                                             *)
(***************************************************************************)
\* rate_limit up to lst.append(now): `lst` is the worker's new list
RateLimitRead(w, ip, op, req) ==
    LET rl == rate_limit("POST", ip, now, RATE_STORE)
    IN /\ inflight[w].pc = "idle"
       /\ IF ~rl.ok
          THEN Reply(op, ip, 429, req, "Too many requests - slow down")
          ELSE /\ inflight' = [inflight EXCEPT ![w] =
                                  [pc |-> "rate_store", ip |-> ip, op |-> op, req |-> req,
                                   lst |-> rl.store[ip], t |-> now]]
               /\ UNCHANGED <<now, issued, content, services, blogs, gallery, leads,
                              RATE_STORE, uploads, outbox, accepted, resp>>

\* RATE_STORE[ip] = lst, and the rest of the handler
RateLimitStore(w) ==
    /\ inflight[w].pc = "rate_store"
    /\ LET c == inflight[w]
           row == new_lead(leads, c.req)
       IN /\ Len(accepted[c.ip]) < MaxAccepted
          /\ RATE_STORE' = [RATE_STORE EXCEPT ![c.ip] = c.lst]
          /\ accepted' = [accepted EXCEPT ![c.ip] = Append(@, [route |-> Route(c.op), at |-> c.t])]
          /\ inflight' = [inflight EXCEPT ![w] = Idle]
          /\ IF c.op = "create_lead"
             THEN /\ row.id <= MaxLeads
                  /\ leads' = persist_lead(leads, row, "not configured")
                  /\ resp' = Response("create_lead", c.ip, 201, c.req,
                                      [detail |-> "Lead received", id |-> row.id,
                                       smtp |-> "not configured"])
             ELSE /\ resp' = Response("chatbot", c.ip, 200, c.req, [reply |-> c.req])
                  /\ UNCHANGED leads
          /\ UNCHANGED <<now, issued, content, services, blogs, gallery, uploads, outbox>>

\* two workers serving the throttled requests of one client
NextRateThreads ==
    \/ Tick
    \/ \E w \in Workers : RateLimitRead(w, Admin, "create_lead", OneLead)
    \/ \E w \in Workers : RateLimitRead(w, Admin, "chatbot", "hello")
    \/ \E w \in Workers : RateLimitStore(w)

SpecRateThreads == Init /\ [][NextRateThreads]_vars

(***************************************************************************)
(* Updates of one record of each collection: new display columns, with     *)
(* and without data.                                                       *)
(***************************************************************************)
ServiceUpdates == ServicePayloads(Slugs, {"Roofing"}, {EmptyDoc, OtherDoc})
BlogUpdates == BlogPayloads({"solar"}, {"Roofing"}, {EmptyDoc, OtherDoc})
GalleryUpdates ==
    {[title |-> "Roofing", category |-> "energy", data |-> d] : d \in {EmptyDoc, OtherDoc}}

NextUpdates ==
    \/ AdminLogin(Admin, ADMIN_EMAIL, ADMIN_PASSWORD)
    \/ \E tok \in Tokens, p \in {OneService, Roofing} : CreateService(Admin, Bearer(tok), p)
    \/ \E tok \in Tokens, sl \in Slugs, p \in ServiceUpdates :
            UpdateService(Admin, Bearer(tok), sl, p)
    \/ \E tok \in Tokens : CreateBlog(Admin, Bearer(tok), OneBlog)
    \/ \E tok \in Tokens, p \in BlogUpdates : UpdateBlog(Admin, Bearer(tok), "solar", p)
    \/ \E tok \in Tokens : CreateGallery(Admin, Bearer(tok), OneGalleryItem)
    \/ \E tok \in Tokens, p \in GalleryUpdates : UpdateGallery(Admin, Bearer(tok), 1, p)

SpecUpdates == Init /\ [][NextUpdates]_vars

(***************************************************************************)
(* Saving, deleting, reading and seeding the documents of two keys.        *)
(***************************************************************************)
NextDelete ==
    \/ AdminLogin(Admin, ADMIN_EMAIL, ADMIN_PASSWORD)
    \/ \E tok \in Tokens, k \in Keys, d \in {SomeDoc, OtherDoc} :
            SetContent(Admin, Bearer(tok), k, d)
    \/ \E hdr \in AdminHeaders, k \in Keys : DeleteContent(Admin, hdr, k)
    \/ \E k \in Keys : GetContent(Admin, k)
    \/ \E tok \in Tokens : SeedAll(Admin, Bearer(tok), TRUE, OneListing)

SpecDelete == Init /\ [][NextDelete]_vars

(***************************************************************************)
(* Every handler of the server, each with one request, the administrator's *)
(* with a token that login handed out.                                     *)
(***************************************************************************)
NextSystem ==
    \/ AdminLogin(Admin, ADMIN_EMAIL, ADMIN_PASSWORD)
    \/ \E smtp \in {"sent", "timeout"} : CreateLead(Admin, OneLead, smtp)
    \/ Chatbot(Admin, "hello")
    \/ GetContent(Admin, "homepage")
    \/ \E tok \in Tokens : SetContent(Admin, Bearer(tok), "homepage", SomeDoc)
    \/ \E tok \in Tokens : DeleteContent(Admin, Bearer(tok), "homepage")
    \/ \E tok \in Tokens : CreateService(Admin, Bearer(tok), OneService)
    \/ ListServices(Admin)
    \/ GetService(Admin, "solar")
    \/ \E tok \in Tokens : UpdateService(Admin, Bearer(tok), "solar", OneService)
    \/ \E tok \in Tokens : DeleteService(Admin, Bearer(tok), "solar")
    \/ \E tok \in Tokens : CreateBlog(Admin, Bearer(tok), OneBlog)
    \/ ListBlogs(Admin)
    \/ GetBlog(Admin, "solar")
    \/ \E tok \in Tokens : UpdateBlog(Admin, Bearer(tok), "solar", OneBlog)
    \/ \E tok \in Tokens : DeleteBlog(Admin, Bearer(tok), "solar")
    \/ \E tok \in Tokens : CreateGallery(Admin, Bearer(tok), OneGalleryItem)
    \/ ListGallery(Admin)
    \/ GetGalleryItem(Admin, 1)
    \/ \E tok \in Tokens : UpdateGallery(Admin, Bearer(tok), 1, OneGalleryItem)
    \/ \E tok \in Tokens : DeleteGallery(Admin, Bearer(tok), 1)
    \/ \E tok \in Tokens : UploadImage(Admin, Bearer(tok), "a.png", FALSE)
    \/ \E tok \in Tokens : SeedAll(Admin, Bearer(tok), TRUE, OneListing)

SpecSystem == Init /\ [][NextSystem]_vars

(***************************************************************************)
(* Services and blogs addressed by slug: PUT with the same or another      *)
(* slug, DELETE and GET, of slugs that exist and of slugs that do not.     *)
(***************************************************************************)
RoofingBlog == [slug |-> "roofing", title |-> "Roofing", data |-> EmptyDoc]
ServiceRekeys == ServicePayloads(Slugs, {"Roofing"}, {EmptyDoc})
BlogRekeys == BlogPayloads(Slugs, {"Roofing"}, {EmptyDoc})

NextRekey ==
    \/ AdminLogin(Admin, ADMIN_EMAIL, ADMIN_PASSWORD)
    \/ \E tok \in Tokens, p \in {OneService, Roofing} : CreateService(Admin, Bearer(tok), p)
    \/ \E tok \in Tokens, sl \in Slugs, p \in ServiceRekeys :
            UpdateService(Admin, Bearer(tok), sl, p)
    \/ \E tok \in Tokens, sl \in Slugs : DeleteService(Admin, Bearer(tok), sl)
    \/ \E sl \in Slugs : GetService(Admin, sl)
    \/ \E tok \in Tokens, p \in {OneBlog, RoofingBlog} : CreateBlog(Admin, Bearer(tok), p)
    \/ \E tok \in Tokens, sl \in Slugs, p \in BlogRekeys :
            UpdateBlog(Admin, Bearer(tok), sl, p)
    \/ \E tok \in Tokens, sl \in Slugs : DeleteBlog(Admin, Bearer(tok), sl)
    \/ \E sl \in Slugs : GetBlog(Admin, sl)

SpecRekey == Init /\ [][NextRekey]_vars

(***************************************************************************)
(* The whole server.                                                       *)
(***************************************************************************)
Next ==
    \/ NextContent \/ NextAdmin \/ NextAuth \/ NextRate \/ NextWrites
    \/ NextLead \/ NextServices \/ NextBlogs \/ NextGallery
    \/ NextContentThreads \/ NextSetRace \/ NextReplace \/ NextRateThreads
    \/ NextUpdates \/ NextDelete \/ NextSystem \/ NextRekey

Spec == Init /\ [][Next]_vars

(***************************************************************************)
(* C1: an authorized set_content(k, d) followed by get_content(k) returns  *)
(* exactly d, whether or not k held a document before: right after the     *)
(* save a read of k yields d, and a GET /content/k that follows the save   *)
(* answers 200 with d.                                                     *)
(***************************************************************************)
C1_SetThenGet ==
    [][/\ (resp'.op = "set_content" /\ resp'.status = 200)
            => get_content(content', resp'.req.key) = [status |-> 200, body |-> resp'.req.data]
       /\ (/\ resp.op = "set_content" /\ resp.status = 200
           /\ resp'.op = "get_content" /\ resp'.req.key = resp.req.key)
            => (resp'.status = 200 /\ resp'.body = resp.req.data)]_vars

\* "seo" was saved before "homepage" (it has the smaller id) and has just been
\* saved again, with the empty document
C1_Witness ==
    /\ resp.op = "set_content" /\ resp.status = 200
    /\ resp.req.key = "seo" /\ resp.req.data = EmptyDoc
    /\ \E r \in content : r.key = "seo" /\ r.id = 1
    /\ \E r \in content : r.key = "homepage" /\ r.id = 2

(***************************************************************************)
(* C2: every administrator-only operation called with a missing,           *)
(* malformed, badly signed, expired or non-admin token is answered 401,    *)
(* and the call leaves the content table, the three collection tables and  *)
(* the leads table (and the uploads directory) as they were.               *)
(***************************************************************************)
AdminOps ==
    {"set_content", "delete_content", "create_service", "update_service",
     "delete_service", "create_blog", "update_blog", "delete_blog",
     "create_gallery", "update_gallery", "delete_gallery", "upload_image", "seed_all"}

BadToken(hdr, t) ==
    \/ hdr.scheme # "Bearer"
    \/ hdr.token.kind # "jwt"
    \/ hdr.token.sig # JWT_SECRET
    \/ hdr.token.exp < t
    \/ hdr.token.sub # "admin"

C2_RejectedBeforeMutation ==
    [][(resp'.op \in AdminOps /\ BadToken(resp'.req.hdr, resp'.at))
          => /\ resp'.status = 401
             /\ UNCHANGED <<content, services, blogs, gallery, leads, uploads>>]_vars

\* a create_service carrying a signed token of another subject was refused
\* while every table held a row
C2_Witness ==
    /\ resp.op = "create_service" /\ resp.status = 401
    /\ resp.req.hdr.scheme = "Bearer" /\ resp.req.hdr.token.sub = "editor"
    /\ content # {} /\ services # {} /\ blogs # {} /\ gallery # {} /\ leads # {}

(***************************************************************************)
(* C3: the guard refuses a token whose signature is invalid, whose expiry  *)
(* has passed or whose subject is not "admin"; a token issued at time t    *)
(* with lifetime L is accepted at any time before t+L and refused at every *)
(* time after t+L; no step makes a refused issued token accepted again.    *)
(***************************************************************************)
Lifetime == JWT_EXPIRE_MINUTES * 60

Accepts(tok, t) == require_admin(Bearer(tok), t) = 200

C3_TokenLifetime ==
    /\ [](resp.op \in AdminOps =>
            /\ BadToken(resp.req.hdr, resp.at) => resp.status = 401
            /\ \A i \in issued : resp.req.hdr = Bearer(i.token) =>
                   /\ resp.at < i.at + Lifetime => resp.status # 401
                   /\ resp.at > i.at + Lifetime => resp.status = 401)
    /\ [][\A i \in issued : ~Accepts(i.token, now) => ~Accepts(i.token, now')]_vars

\* a token handed out by login was used after t+L and refused, after an
\* earlier save had been let through
C3_Witness ==
    /\ resp.op = "set_content" /\ resp.status = 401
    /\ \E i \in issued : resp.req.hdr = Bearer(i.token) /\ resp.at > i.at + Lifetime
    /\ content # {}

(***************************************************************************)
(* C4: login returns a valid admin token exactly when the e-mail address   *)
(* equals the configured one ignoring letter case and the password equals  *)
(* the configured one; all other logins with a well-formed e-mail address  *)
(* get one and the same 401 response.                                      *)
(***************************************************************************)
SameLetter(a, b) ==
    \/ a = b
    \/ \E k \in 1..Len(UpperLetters) : {a, b} = {UpperLetters[k], LowerLetters[k]}

EqualIgnoringCase(x, y) ==
    Len(x) = Len(y) /\ \A i \in 1..Len(x) : SameLetter(x[i], y[i])

C4_Login ==
    resp.op = "admin_login" =>
        LET match == /\ EqualIgnoringCase(resp.req.email, ADMIN_EMAIL)
                     /\ resp.req.password = ADMIN_PASSWORD
        IN /\ resp.status = 200 <=> match
           /\ resp.status = 200 =>
                 /\ Accepts(resp.body.token, resp.at)
                 /\ resp.body.token.exp = resp.at + Lifetime
           /\ (resp.status # 200 /\ IsEmail(resp.req.email)) =>
                 /\ resp.status = 401
                 /\ resp.body = [detail |-> "Invalid credentials", token |-> Garbage]

\* the address in other letter case with the right password was let in
C4_Witness ==
    /\ resp.op = "admin_login" /\ resp.status = 200
    /\ resp.req.email = AdminUpper /\ resp.req.email # ADMIN_EMAIL

(***************************************************************************)
(* Counting the requests the limiter let through.                          *)
(***************************************************************************)
\* the let-through requests of client c in the 60 seconds up to t
Recent(c, t) == {i \in DOMAIN accepted[c] : accepted[c][i].at <= t /\ t - accepted[c][i].at < window}
RecentOn(c, route, t) == {i \in Recent(c, t) : accepted[c][i].route = route}

\* whether the last request was let through by the limiter
LetThrough == resp.op \in ThrottledOps /\ resp.status \in {200, 201}
Throttled == resp.op \in ThrottledOps /\ resp.status # 422

\* how many requests the limiter had let through, in the window, before the last one
Before(S) == Cardinality(S) - (IF LetThrough THEN 1 ELSE 0)

Times(c, S) == {accepted[c][i].at : i \in S}
Last(c) == accepted[c][Len(accepted[c])].at

MutatingOps ==
    {"create_lead", "set_content", "delete_content", "create_service", "update_service",
     "delete_service", "create_blog", "update_blog", "delete_blog",
     "create_gallery", "update_gallery", "delete_gallery"}
ReadOps ==
    {"get_content", "list_services", "get_service", "list_blogs", "get_blog",
     "list_gallery", "get_gallery_item"}

C7_MutatingThrottledAsClaimed ==
    /\ (resp.op \in MutatingOps /\ resp.status \notin {401, 422}) =>
          IF Before(Recent(resp.client, resp.at)) >= RATE_LIMIT_PER_MIN
          THEN resp.status = 429
          ELSE RATE_STORE[resp.client] # <<>>
               /\ RATE_STORE[resp.client][Len(RATE_STORE[resp.client])] = resp.at
    /\ resp.op \in ReadOps => resp.status # 429

(***************************************************************************)
(* C8: a lead that passes validation and throttling is persisted and       *)
(* answered 201 whatever the notification step met; a failed notification  *)
(* leaves the row in the table.                                            *)
(***************************************************************************)
C8_LeadPersisted ==
    (resp.op = "create_lead" /\ LeadSchema(resp.req) /\ resp.status # 429) =>
        /\ resp.status = 201
        /\ \E row \in leads :
              /\ row.id = resp.body.id
              /\ row.name = resp.req.name /\ row.email = resp.req.email
              /\ row.phone = resp.req.phone /\ row.message = resp.req.message
              /\ row.created_at = resp.at
        /\ Cardinality(leads) = resp.body.id
        /\ (resp.body.smtp # "sent" => resp.body.id \notin outbox)

\* the relay timed out on the second lead; both leads are stored
C8_Witness ==
    /\ resp.op = "create_lead" /\ resp.status = 201
    /\ resp.body.smtp = "timeout" /\ resp.body.id = 2
    /\ Cardinality(leads) = 2

(***************************************************************************)
(* C9: within each collection the unique key is unique after any sequence  *)
(* of create, update and delete: no two services share a slug, no two      *)
(* blogs share a slug, no two gallery entries share a title.               *)
(***************************************************************************)
UniqueTitle(rows) == \A a, b \in rows : a.title = b.title => a.id = b.id

C9_UniqueKeysAsClaimed ==
    UniqueSlug(services) /\ UniqueSlug(blogs) /\ UniqueTitle(gallery)

(***************************************************************************)
(* C10: creating (upserting) a service or blog whose slug already exists   *)
(* succeeds, overwrites that record's fields and payload in place and      *)
(* leaves the number of records unchanged; with a slug that does not exist *)
(* it adds exactly one record.                                             *)
(***************************************************************************)
UpsertedInto(before, after, status, p) ==
    /\ status = 200
    /\ Cardinality(after) =
          Cardinality(before) + (IF \E r \in before : r.slug = p.slug THEN 0 ELSE 1)
    /\ \E r \in after : r.slug = p.slug /\ r.data = p.data

C10_UpsertAsClaimed ==
    [][/\ (resp'.op = "create_service" /\ resp'.status # 401) =>
             /\ UpsertedInto(services, services', resp'.status, resp'.req.payload)
             /\ \E r \in services' : r.slug = resp'.req.payload.slug
                                      /\ r.name = resp'.req.payload.name
       /\ (resp'.op = "create_blog" /\ resp'.status # 401) =>
             /\ UpsertedInto(blogs, blogs', resp'.status, resp'.req.payload)
             /\ \E r \in blogs' : r.slug = resp'.req.payload.slug
                                   /\ r.title = resp'.req.payload.title]_vars

(***************************************************************************)
(* C11: in every reachable state the content table holds at most one       *)
(* document per key, whatever the interleaving of the reads and commits of *)
(* concurrent set_content, delete_content and seed requests.               *)
(***************************************************************************)
C11_OneDocumentPerKey ==
    \A a, b \in content : a.key = b.key => a = b

\* two workers that both found no row of "homepage" have both committed: one
\* row is stored and the later commit ended with an error
C11_Witness ==
    /\ resp.op \in {"set_content", "seed_all"} /\ resp.status = 500
    /\ resp.body = "IntegrityError"
    /\ Cardinality({r \in content : r.key = "homepage"}) = 1

(***************************************************************************)
(* C12: a bulk replace is atomic.  When replaceAll(items) returns, the     *)
(* records of the kind are exactly the items that carry a key (none after  *)
(* replaceAll of the empty list), and a listing that follows returns       *)
(* them; a listing taken while a bulk replace is under way returns the     *)
(* complete set from before it, never an empty or partly filled one.       *)
(***************************************************************************)
Payloads(rows) ==
    {[slug |-> r.slug, name |-> r.name, category |-> r.category, data |-> r.data] : r \in rows}
Keyed(items) == {items[i] : i \in {j \in 1..Len(items) : items[j].slug # Missing}}

Repeats(w) ==
    /\ inflight[w].pc = "set_commit"
    /\ inflight[w].rivals = {}
    /\ resp.op = "set_content" /\ resp.status = 200
    /\ resp.req.rivals = {}
    /\ resp.req.key = inflight[w].req.key
    /\ resp.req.data = inflight[w].req.data

C13_SetIdempotent ==
    [][\A w \in Workers :
          (Repeats(w) /\ inflight'[w].pc = "idle")
            => (resp'.status = 200 /\ content' = content)]_vars

\* the second of two equal saves has read the row the first one wrote
C13_Witness ==
    \E w \in Workers :
        /\ Repeats(w)
        /\ inflight[w].req.data = OtherDoc
        /\ get_content(content, "homepage") = [status |-> 200, body |-> OtherDoc]

(***************************************************************************)
(* C14: leads are append-only.  Whatever request the server handles, every *)
(* lead stored before it is stored after it, unchanged: the leads table    *)
(* only grows.                                                             *)
(***************************************************************************)
C14_LeadsAppendOnly ==
    [][leads \subseteq leads']_vars

\* two leads are stored and an administrator has just deleted a document
C14_Witness ==
    /\ Cardinality(leads) = 2
    /\ resp.op = "delete_content" /\ resp.status = 200

(***************************************************************************)
(* C15: two set_content calls of one key that overlap behave as if they    *)
(* ran one after the other: each returns Ack, and after each the stored    *)
(* document is the document of one of them.                                *)
(***************************************************************************)
C15_ConcurrentSetsAsClaimed ==
    [][\A w \in Workers :
          (/\ inflight[w].pc = "set_commit" /\ inflight'[w].pc = "idle"
           /\ inflight[w].rivals # {})
            => /\ resp'.status = 200
               /\ get_content(content', inflight[w].req.key).status = 200
               /\ get_content(content', inflight[w].req.key).body
                     \in {inflight[w].req.data} \cup inflight[w].rivals]_vars

(***************************************************************************)
(* C16: the limiter's check-and-record is atomic per client under          *)
(* concurrent requests: the time of every request it let through in the    *)
(* current window is in the client's stored list, and it lets through at   *)
(* most RATE_LIMIT_PER_MIN requests of a client in one window.             *)
(***************************************************************************)
StoredAt(c, t) == Cardinality({i \in DOMAIN RATE_STORE[c] : RATE_STORE[c][i] = t})
AcceptedAt(c, t) == Cardinality({i \in DOMAIN accepted[c] : accepted[c][i].at = t})

C16_AtomicCheckAndRecordAsClaimed ==
    \A c \in Clients :
        /\ Cardinality(Recent(c, now)) <= RATE_LIMIT_PER_MIN
        /\ \A i \in Recent(c, now) :
              StoredAt(c, accepted[c][i].at) >= AcceptedAt(c, accepted[c][i].at)

(***************************************************************************)
(* C17: a request the limiter refuses with 429 is not recorded: the        *)
(* handling of a refused request leaves every client's stored list as it   *)
(* was, so the stored list holds the times of let-through requests only    *)
(* and a refusal never lengthens the time the client stays blocked.        *)
(***************************************************************************)
C17_RefusalNotRecorded ==
    /\ [](\A c \in Clients : \A i \in DOMAIN RATE_STORE[c] :
             \E j \in DOMAIN accepted[c] : accepted[c][j].at = RATE_STORE[c][i])
    /\ [][(resp'.status = 429 /\ now' = now)
             => (RATE_STORE' = RATE_STORE /\ accepted' = accepted)]_vars

\* a client was refused at 30 s, after two requests at 0 s; the list still
\* holds those two times only
C17_Witness ==
    /\ resp.status = 429 /\ resp.at = 30 /\ now = 30
    /\ RATE_STORE[resp.client] = <<0, 0>>

(***************************************************************************)
(* C18: delete_content(k) by an administrator returns Ack and removes the  *)
(* document when k exists, after which get_content(k) signals NotFound     *)
(* until k is saved again; when k does not exist it returns NotFound and   *)
(* leaves the table unchanged.  The documents of every other key stay as   *)
(* they were in both cases, and get_content never changes the table.       *)
(***************************************************************************)
Others(rows, key) == {r \in rows : r.key # key}

C18_DeleteContent ==
    [][/\ (resp'.op = "delete_content" /\ resp' # resp
           /\ require_admin(resp'.req.hdr, now) = 200)
            => /\ resp'.status = (IF get_content(content, resp'.req.key).status = 200
                                  THEN 200 ELSE 404)
               /\ get_content(content', resp'.req.key).status = 404
               /\ Others(content', resp'.req.key) = Others(content, resp'.req.key)
               /\ resp'.status = 404 => content' = content
       /\ (resp.op = "delete_content" /\ resp.status = 200
           /\ resp'.op = "get_content" /\ resp'.req.key = resp.req.key)
            => resp'.status = 404
       /\ (resp'.op = "get_content") => content' = content
       /\ \A k \in Keys :
            (get_content(content, k).status = 404 /\ get_content(content', k).status = 200)
                => resp'.op \in {"set_content", "seed_all"}]_vars

\* "homepage" has just been deleted and "seo", saved after it, is still there
C18_Witness ==
    /\ resp.op = "delete_content" /\ resp.status = 200 /\ resp.req.key = "homepage"
    /\ get_content(content, "homepage").status = 404
    /\ \E r \in content : r.key = "seo" /\ r.id = 2

(***************************************************************************)
(* C19: a lead submission the limiter refuses has no effect: the request   *)
(* that ends with 429 stores no lead and hands no notification to the      *)
(* relay.                                                                  *)
(***************************************************************************)
C19_RefusedLeadHasNoEffect ==
    [][(resp'.op = "create_lead" /\ resp'.status = 429 /\ now' = now)
          => (leads' = leads /\ outbox' = outbox)]_vars

\* the third lead of the minute is refused; the relay took the first two
C19_Witness ==
    /\ resp.op = "create_lead" /\ resp.status = 429
    /\ Cardinality(leads) = 2 /\ outbox = {1, 2}

(***************************************************************************)
(* C20: a PUT of an existing service, blog or gallery record (with a slug  *)
(* that no other record holds) succeeds, overwrites the record's key and   *)
(* display columns (slug, name or title, category) with the request's      *)
(* values and replaces the stored data only when the request's data is     *)
(* non-empty; with empty data the record keeps the data it had.  The       *)
(* other records stay as they were.                                        *)
(***************************************************************************)
Kept(old, p) == IF p.data = EmptyDoc THEN old.data ELSE p.data
Row(rows, id) == CHOOSE r \in rows : r.id = id
SameIds(a, b) == {r.id : r \in a} = {r.id : r \in b}
Rest(rows, id) == {r \in rows : r.id # id}
Free(rows, slug, id) == \A r \in rows : r.slug = slug => r.id = id

Authorized(r) == require_admin(r.req.hdr, r.at) = 200

C21_RekeyBySlug ==
    [][/\ (resp'.op = "update_service" /\ Authorized(resp'))
            => LET p == resp'.req.payload
                   addressed == resp'.req.slug
                   old == BySlug(services, addressed)
               IN /\ ~Found(old) => (resp'.status = 404 /\ services' = services)
                  /\ (Found(old) /\ p.slug # addressed /\ Free(services, p.slug, old.id))
                        => /\ resp'.status = 200
                           /\ get_service(services', addressed).status = 404
                           /\ get_service(services', p.slug).status = 200
                           /\ get_service(services', p.slug).body.id = old.id
                           /\ Cardinality(services') = Cardinality(services)
       /\ (resp'.op = "update_blog" /\ Authorized(resp'))
            => LET p == resp'.req.payload
                   addressed == resp'.req.slug
                   old == BySlug(blogs, addressed)
               IN /\ ~Found(old) => (resp'.status = 404 /\ blogs' = blogs)
                  /\ (Found(old) /\ p.slug # addressed /\ Free(blogs, p.slug, old.id))
                        => /\ resp'.status = 200
                           /\ get_blog(blogs', addressed).status = 404
                           /\ get_blog(blogs', p.slug).status = 200
                           /\ get_blog(blogs', p.slug).body.id = old.id
                           /\ Cardinality(blogs') = Cardinality(blogs)
       /\ (resp'.op = "delete_service" /\ Authorized(resp')
           /\ ~Found(BySlug(services, resp'.req.slug)))
            => (resp'.status = 404 /\ services' = services)
       /\ (resp'.op = "delete_blog" /\ Authorized(resp')
           /\ ~Found(BySlug(blogs, resp'.req.slug)))
            => (resp'.status = 404 /\ blogs' = blogs)
       /\ (/\ resp.op = "update_service" /\ resp.status = 200
           /\ resp.req.payload.slug # resp.req.slug /\ resp'.op = "get_service")
            => resp'.status = (IF resp'.req.slug = resp.req.slug THEN 404 ELSE 200)]_vars

\* the only service, created as "solar", has just been moved to "roofing"
C21_Witness ==
    /\ resp.op = "update_service" /\ resp.status = 200
    /\ resp.req.slug = "solar" /\ resp.req.payload.slug = "roofing"
    /\ get_service(services, "solar").status = 404
    /\ \E r \in services : r.id = 1 /\ r.slug = "roofing" /\ r.data = SomeDoc
    /\ \E b \in blogs : b.id = 1 /\ b.slug = "roofing" /\ b.data = SomeDoc

=============================================================================
